---- MODULE Spec2Model ----
(***************************************************************************)
(* A model of EnhancedTeamTacticalPredictor (src/streamlit_app.py): the    *)
(* analyzer object (data, team_names, team_analysis), the session flag     *)
(* data_loaded, and the operations load_optimized_data,                    *)
(* analyze_team_tactical_profile and create_team_report with the helpers   *)
(* they call.                                                              *)
(*                                                                         *)
(* Representation of Python values:                                        *)
(*   - an optional value (dict.get that may give None) is a sequence of    *)
(*     length 0 (None) or 1 (the value);                                   *)
(*   - a dict is an association list in insertion order, a sequence of     *)
(*     [key, val] records, because the code depends on iteration order;    *)
(*   - a str that the code takes apart is a sequence of one-character      *)
(*     strings;                                                            *)
(*   - a float is an exact fraction [num, den] (den > 0) or a scaled       *)
(*     integer: ratings are in tenths;                                     *)
(*   - the outcome of a call is [kind, val]: kind "ok" with the value in   *)
(*     val, kind "None" for a None return, kind "raise" for an exception   *)
(*     that leaves the call (val then names the exception).                *)
(***************************************************************************)
EXTENDS Integers, Sequences, FiniteSets, TLC

VARIABLES data, team_names, team_analysis, data_loaded, op, ret, first_out, between, again,
          inp, out

vars == <<data, team_names, team_analysis, data_loaded, op, ret, first_out, between, again,
          inp, out>>

(***************************************************************************)
(* Bounds of the model.                                                    *)
(***************************************************************************)
MaxDocs == 2
MaxScore == 2
MaxMatches == 3
MaxMinuteLen == 5
MaxStrLen == 5
MaxPathLen == 4
MaxRoleMatches == 5
MaxFormMatches == 6

(***************************************************************************)
(* Python values.                                                          *)
(***************************************************************************)
None == <<>>
Some(x) == <<x>>
IsNone(o) == o = <<>>
Val(o) == o[1]

Frac(n, d) == [num |-> n, den |-> d]
Zero == Frac(0, 1)
\* a > b, a = b for fractions with positive denominators
FracGT(a, b) == a.num * b.den > b.num * a.den
FracEQ(a, b) == a.num * b.den = b.num * a.den
FracLE(a, b) == a.num * b.den <= b.num * a.den

Ok(v) == [kind |-> "ok", val |-> <<v>>]
RetNone == [kind |-> "None", val |-> <<>>]
Raise(e) == [kind |-> "raise", val |-> <<e>>]

RECURSIVE SumSeq(_)
SumSeq(s) == IF s = <<>> THEN 0 ELSE s[1] + SumSeq(Tail(s))

\* the first n for the last n
FirstN(s, n) == IF Len(s) <= n THEN s ELSE SubSeq(s, 1, n)

\* s[-n:]
LastN(s, n) == IF Len(s) <= n THEN s ELSE SubSeq(s, Len(s) - n + 1, Len(s))

Min2(a, b) == IF a <= b THEN a ELSE b

(***************************************************************************)
(* dict as an association list in insertion order.                         *)
(***************************************************************************)
DictKeys(d) == [i \in 1..Len(d) |-> d[i].key]
DictHas(d, k) == \E i \in 1..Len(d) : d[i].key = k
DictIdx(d, k) == CHOOSE i \in 1..Len(d) : d[i].key = k
DictGet(d, k, default) == IF DictHas(d, k) THEN d[DictIdx(d, k)].val ELSE default
\* d[k] = v: an existing key keeps its position, a new key goes last
DictSet(d, k, v) ==
    IF DictHas(d, k) THEN [d EXCEPT ![DictIdx(d, k)] = [key |-> k, val |-> v]]
    ELSE Append(d, [key |-> k, val |-> v])

(***************************************************************************)
(* _extract_team_match_info (lines 275-332).  A document is a record with  *)
(* the keys of the optimized format; a key whose value may be absent or    *)
(* null holds an optional value.  A statistics key is a sequence of        *)
(* tokens, <<"home_", "total_shots">> for 'home_total_shots', so that      *)
(* startswith and replace act on the prefix tokens.                        *)
(***************************************************************************)
StartsWith(key, prefix) == Len(key) > 0 /\ key[1] = prefix

RECURSIVE StrReplace(_, _)
\* key.replace(prefix, ''): every occurrence of the token is removed
StrReplace(key, prefix) ==
    IF key = <<>> THEN <<>>
    ELSE (IF key[1] = prefix THEN <<>> ELSE <<key[1]>>) \o StrReplace(Tail(key), prefix)

RECURSIVE process_stats(_, _, _)
\* lines 300-306: the team's own statistics, prefix removed, in document order
process_stats(raw, is_home, acc) ==
    IF raw = <<>> THEN acc
    ELSE LET key == raw[1].key
             value == raw[1].val
             acc2 == IF is_home /\ StartsWith(key, "home_")
                        THEN DictSet(acc, StrReplace(key, "home_"), value)
                     ELSE IF ~is_home /\ StartsWith(key, "away_")
                        THEN DictSet(acc, StrReplace(key, "away_"), value)
                     ELSE acc
         IN process_stats(Tail(raw), is_home, acc2)

\* lines 312-313
ensure_xg(processed_stats) ==
    IF ~DictHas(processed_stats, <<"expected_goals_xg">>)
       THEN DictSet(processed_stats, <<"expected_goals_xg">>, 0)
    ELSE processed_stats

\* the away side forgotten
team_not_home(match, team_name) == team_name # match.home_team

\* the test of line 281 left out: every document gives a record
no_match_skipped(match, team_name) == FALSE

\* line 281: team_name not in [home_team, away_team]
team_not_in_match(match, team_name) ==
    team_name # match.home_team /\ team_name # match.away_team

\* >= for >: a draw counted as a win
result_of_draw_as_win(team_score, opponent_score) ==
    IF team_score >= opponent_score THEN "W"
    ELSE IF team_score = opponent_score THEN "D"
    ELSE "L"

\* line 330; comparing None with a number raises TypeError before this is reached
result_of(team_score, opponent_score) ==
    IF team_score > opponent_score THEN "W"
    ELSE IF team_score = opponent_score THEN "D"
    ELSE "L"

extract_team_match_info(match, team_name) ==
    IF team_not_in_match(match, team_name) THEN RetNone
    ELSE LET is_home == team_name = match.home_team
             opponent == IF is_home THEN match.away_team ELSE match.home_team
             team_score == IF is_home THEN match.home_score ELSE match.away_score
             opponent_score == IF is_home THEN match.away_score ELSE match.home_score
             formation == IF is_home THEN match.home_formation ELSE match.away_formation
             starters == IF is_home THEN match.home_lineup ELSE match.away_lineup
             subs == IF is_home THEN match.home_subs ELSE match.away_subs
             team_substitutions == IF is_home THEN match.substitutions.home
                                   ELSE match.substitutions.away
             processed_stats == ensure_xg(process_stats(match.stats, is_home, <<>>))
         IN IF IsNone(team_score) \/ IsNone(opponent_score)
               THEN Raise("TypeError")
            ELSE Ok([date |-> match.date,
                     match_id |-> match.match_id,
                     league |-> match.league,
                     round |-> match.round,
                     is_home |-> is_home,
                     opponent |-> opponent,
                     formation |-> formation,
                     starters |-> starters,
                     substitutes |-> subs,
                     substitutions |-> team_substitutions,
                     team_score |-> Val(team_score),
                     opponent_score |-> Val(opponent_score),
                     result |-> result_of(Val(team_score), Val(opponent_score)),
                     stats |-> processed_stats])

RECURSIVE extract_matches(_, _, _)
\* lines 250-253: the loop over self.data; an exception leaves the loop
extract_matches(docs, team_name, acc) ==
    IF docs = <<>> THEN Ok(acc)
    ELSE LET match_info == extract_team_match_info(docs[1], team_name)
         IN IF match_info.kind = "raise" THEN match_info
            ELSE IF match_info.kind = "None" THEN extract_matches(Tail(docs), team_name, acc)
            ELSE extract_matches(Tail(docs), team_name, Append(acc, Val(match_info.val)))

(***************************************************************************)
(* line 259: list.sort(key=date).  The sort is stable; a date is an ISO    *)
(* string, modelled by its day number, and a missing date is None, which   *)
(* no comparison accepts: with two or more records every record is         *)
(* compared at least once, so one None date raises TypeError.              *)
(***************************************************************************)
RECURSIVE insert_by_date(_, _)
\* m goes after every record whose date is <= its own
insert_by_date(sorted, m) ==
    IF sorted = <<>> THEN <<m>>
    ELSE IF Val(m.date) < Val(sorted[1].date) THEN <<m>> \o sorted
    ELSE <<sorted[1]>> \o insert_by_date(Tail(sorted), m)

RECURSIVE sort_matches(_, _)
sort_matches(matches, acc) ==
    IF matches = <<>> THEN acc
    ELSE sort_matches(Tail(matches), insert_by_date(acc, matches[1]))

\* the records left in document order
left_unsorted(matches) == Ok(matches)

sort_by_date(matches) ==
    IF Len(matches) >= 2 /\ \E i \in 1..Len(matches) : IsNone(matches[i].date)
       THEN Raise("TypeError")
    ELSE IF Len(matches) < 2 THEN Ok(matches)
    ELSE Ok(sort_matches(matches, <<>>))

(***************************************************************************)
(* _analyze_team_formations (lines 388-417).                               *)
(***************************************************************************)
\* "if formation is not None:" for "if formation:"
formation_not_none(formation) == ~IsNone(formation)

\* line 395: "if formation:" is Python truthiness, false for None and for ''
formation_truthy(formation) == ~IsNone(formation) /\ Val(formation) # ""

NewPerf == [W |-> 0, D |-> 0, L |-> 0, GF |-> 0, GA |-> 0]

\* a draw not counted
bump_result_without_draws(perf, result) ==
    IF result = "W" THEN [perf EXCEPT !.W = @ + 1]
    ELSE IF result = "D" THEN perf
    ELSE [perf EXCEPT !.L = @ + 1]

\* line 397: formation_performance[formation][match['result']] += 1
bump_result(perf, result) ==
    IF result = "W" THEN [perf EXCEPT !.W = @ + 1]
    ELSE IF result = "D" THEN [perf EXCEPT !.D = @ + 1]
    ELSE [perf EXCEPT !.L = @ + 1]

RECURSIVE fold_formations(_, _)
\* lines 393-399; acc maps a formation to [count, perf]
fold_formations(matches, acc) ==
    IF matches = <<>> THEN acc
    ELSE LET match == matches[1]
             formation == match.formation
             old == DictGet(acc, formation, [count |-> 0, perf |-> NewPerf])
             perf1 == bump_result(old.perf, match.result)
             perf2 == [perf1 EXCEPT !.GF = @ + match.team_score,
                                    !.GA = @ + match.opponent_score]
         IN IF formation_truthy(formation)
               THEN fold_formations(Tail(matches),
                        DictSet(acc, formation, [count |-> old.count + 1, perf |-> perf2]))
            ELSE fold_formations(Tail(matches), acc)

\* lines 404-417
formation_entry(count, perf, total_matches) ==
    LET total == perf.W + perf.D + perf.L
    IN [usage_count |-> count,
        usage_rate |-> Frac(count * 100, total_matches),
        wins |-> perf.W,
        draws |-> perf.D,
        losses |-> perf.L,
        win_rate |-> IF total > 0 THEN Frac(perf.W * 100, total) ELSE Zero,
        points_per_game |-> IF total > 0 THEN Frac(perf.W * 3 + perf.D, total) ELSE Zero,
        goals_for_avg |-> IF total > 0 THEN Frac(perf.GF, total) ELSE Zero,
        goals_against_avg |-> IF total > 0 THEN Frac(perf.GA, total) ELSE Zero]

analyze_team_formations(matches) ==
    LET usage == fold_formations(matches, <<>>)
        total_matches == Len(matches)
    IN [i \in 1..Len(usage) |->
           [key |-> usage[i].key,
            val |-> formation_entry(usage[i].val.count, usage[i].val.perf, total_matches)]]

(***************************************************************************)
(* _analyze_player_rotations (lines 419-524).  A player entry of a lineup  *)
(* is [id, name, position, rating, minutes, goals, assists, xG]; rating is *)
(* optional (the key may be absent) and in tenths.                         *)
(***************************************************************************)
FormWindow == 5

\* lines 421-436
NewAppearance ==
    [name |-> "", starts |-> 0, sub_appearances |-> 0,
     formations_played |-> <<>>, positions_played |-> <<>>,
     recent_starts |-> <<>>, performance |-> <<>>,
     goals |-> 0, assists |-> 0, xG |-> 0, total_minutes |-> 0,
     sub_minutes |-> <<>>, total_rating |-> 0, rating_count |-> 0]

\* player.get('rating', 0)
rating_of(player) == IF IsNone(player.rating) THEN 0 ELSE Val(player.rating)

\* >= 0 for > 0: a rating of 0 averaged in
fold_rating_with_zero(d, player) ==
    IF rating_of(player) >= 0
       THEN [d EXCEPT !.total_rating = @ + rating_of(player),
                      !.rating_count = @ + 1,
                      !.performance = Append(@, rating_of(player))]
    ELSE d

\* lines 456-459 and 478-481: only a rating > 0 is folded in
fold_rating(d, player) ==
    IF rating_of(player) > 0
       THEN [d EXCEPT !.total_rating = @ + rating_of(player),
                      !.rating_count = @ + 1,
                      !.performance = Append(@, rating_of(player))]
    ELSE d

\* lines 451-454 and 473-476
fold_counters(d, player) ==
    [d EXCEPT !.goals = @ + player.goals,
              !.assists = @ + player.assists,
              !.xG = @ + player.xG,
              !.total_minutes = @ + player.minutes]

\* lines 443-459
track_starter(d, player, match, i) ==
    LET d1 == [d EXCEPT !.name = player.name,
                        !.starts = @ + 1,
                        !.formations_played =
                            DictSet(@, match.formation, DictGet(@, match.formation, 0) + 1),
                        !.positions_played =
                            DictSet(@, player.position, DictGet(@, player.position, 0) + 1),
                        !.recent_starts = Append(@, i)]
    IN fold_rating(fold_counters(d1, player), player)

\* every roster entry taken for a player who came on
always_subbed_in(match, player_id) == TRUE

\* line 470
is_subbed_in(match, player_id) ==
    \E k \in 1..Len(match.substitutions) : match.substitutions[k].player_id = player_id

\* every roster entry counted, with or without a substitution event
track_substitute_unchecked(d, player, match) ==
    fold_rating(fold_counters([d EXCEPT !.name = player.name, !.sub_appearances = @ + 1],
                              player), player)

\* lines 465-481
track_substitute(d, player, match) ==
    LET d1 == [d EXCEPT !.name = player.name]
    IN IF is_subbed_in(match, player.id)
          THEN fold_rating(fold_counters([d1 EXCEPT !.sub_appearances = @ + 1], player), player)
       ELSE d1

RECURSIVE fold_starters(_, _, _, _)
fold_starters(players, match, i, acc) ==
    IF players = <<>> THEN acc
    ELSE LET player == players[1]
             d == DictGet(acc, player.id, NewAppearance)
         IN fold_starters(Tail(players), match, i,
                          DictSet(acc, player.id, track_starter(d, player, match, i)))

RECURSIVE fold_substitutes(_, _, _)
fold_substitutes(players, match, acc) ==
    IF players = <<>> THEN acc
    ELSE LET player == players[1]
             d == DictGet(acc, player.id, NewAppearance)
         IN fold_substitutes(Tail(players), match,
                             DictSet(acc, player.id, track_substitute(d, player, match)))

RECURSIVE fold_rotations(_, _, _)
\* lines 440-481: enumerate(team_data['matches']), i from 0
fold_rotations(matches, i, acc) ==
    IF matches = <<>> THEN acc
    ELSE LET match == matches[1]
             acc1 == fold_starters(match.starters, match, i, acc)
             acc2 == fold_substitutes(match.substitutes, match, acc1)
         IN fold_rotations(Tail(matches), i + 1, acc2)

\* >= for >: a boundary value in the upper bucket
role_of_inclusive(total_apps, starts, total_matches) ==
    IF total_apps = 0 THEN "Non-playing"
    ELSE IF starts * 10 >= 8 * total_matches THEN "Key Player"
    ELSE IF starts * 10 >= 5 * total_matches THEN "Regular Starter"
    ELSE IF starts * 10 >= 2 * total_matches THEN "Squad Rotation"
    ELSE "Fringe Player"

\* lines 489-498; start_rate = starts / total_matches, compared exactly: the quotient of
\* two small integers is above the double 0.8 (0.5, 0.2) exactly when the fraction is
\* above 4/5 (1/2, 1/5).  The labels are written without their leading symbol
role_of(total_apps, starts, total_matches) ==
    IF total_apps = 0 THEN "Non-playing"
    ELSE IF starts * 10 > 8 * total_matches THEN "Key Player"
    ELSE IF starts * 10 > 5 * total_matches THEN "Regular Starter"
    ELSE IF starts * 10 > 2 * total_matches THEN "Squad Rotation"
    ELSE "Fringe Player"

\* the last key with the highest count for the first
max_key_last(d) ==
    LET i == CHOOSE i \in 1..Len(d) :
                 /\ \A j \in 1..Len(d) : d[j].val <= d[i].val
                 /\ \A j \in (i + 1)..Len(d) : d[j].val < d[i].val
    IN d[i].key

\* max(d, key=d.get): the first key, in insertion order, with the highest count
max_key(d) ==
    LET i == CHOOSE i \in 1..Len(d) :
                 /\ \A j \in 1..Len(d) : d[j].val <= d[i].val
                 /\ \A j \in 1..(i - 1) : d[j].val < d[i].val
    IN d[i].key

\* round(n / d, ndigits) on the scaled integers: to the nearest.  An exact half goes to
\* even here; in the code it goes where the double nearest to it lies, and it takes
\* four samples or more to meet one
RoundDiv(n, d) ==
    LET q == n \div d
        r == n % d
    IN IF 2 * r > d THEN q + 1
       ELSE IF 2 * r < d THEN q
       ELSE IF q % 2 = 0 THEN q ELSE q + 1

RECURSIVE MinSeq(_)
MinSeq(s) == IF Len(s) = 1 THEN s[1] ELSE Min2(s[1], MinSeq(Tail(s)))

RECURSIVE MaxSeq(_)
MaxSeq(s) == IF Len(s) = 1 THEN s[1]
             ELSE LET m == MaxSeq(Tail(s)) IN IF s[1] >= m THEN s[1] ELSE m

\* round(np.mean(samples), 1) in tenths
round_mean_tenths(samples) == RoundDiv(10 * SumSeq(samples), Len(samples))

\* the substitute appearances left out of the total
total_appearances_starts_only(d) == d.starts

\* line 485
total_appearances(d) == d.starts + d.sub_appearances

\* lines 486-524
player_entry(d, total_matches) ==
    LET total_apps == total_appearances(d)
        start_rate == IF total_matches > 0 THEN Frac(d.starts, total_matches) ELSE Zero
        recent_starts == LastN(d.recent_starts, FormWindow)
        recent_frequency == IF total_matches > 0
                               THEN Frac(Len(recent_starts), Min2(FormWindow, total_matches))
                            ELSE Zero
        recent == LastN(d.performance, FormWindow)
    IN [name |-> d.name,
        total_appearances |-> total_apps,
        starts |-> d.starts,
        sub_appearances |-> d.sub_appearances,
        start_rate |-> Frac(start_rate.num * 100, start_rate.den),
        role |-> role_of(total_apps, d.starts, total_matches),
        primary_formation |-> IF d.formations_played # <<>>
                                 THEN max_key(d.formations_played) ELSE Some(""),
        primary_position |-> IF d.positions_played # <<>>
                                THEN max_key(d.positions_played) ELSE "",
        recent_frequency |-> Frac(recent_frequency.num * 100, recent_frequency.den),
        avg_rating |-> IF d.rating_count > 0
                          THEN Frac(d.total_rating, d.rating_count) ELSE Zero,
        recent_form_avg |-> IF d.performance # <<>>
                               THEN Frac(SumSeq(recent), Len(recent)) ELSE Zero,
        recent_starts |-> recent_starts,
        goals |-> d.goals,
        assists |-> d.assists,
        xG |-> d.xG,
        total_minutes |-> d.total_minutes,
        minutes_per_game |-> IF total_apps > 0
                                THEN Frac(d.total_minutes, total_apps) ELSE Zero,
        avg_sub_minute |-> IF d.sub_minutes # <<>>
                              THEN round_mean_tenths(d.sub_minutes) ELSE 0,
        sub_minute_range |-> IF d.sub_minutes # <<>>
                                THEN <<MinSeq(d.sub_minutes), MaxSeq(d.sub_minutes)>>
                             ELSE <<>>]

analyze_player_rotations(matches) ==
    LET player_appearances == fold_rotations(matches, 0, <<>>)
        total_matches == Len(matches)
    IN [i \in 1..Len(player_appearances) |->
           [key |-> player_appearances[i].key,
            val |-> player_entry(player_appearances[i].val, total_matches)]]

(***************************************************************************)
(* _analyze_formation_performance and _determine_formation_style           *)
(* (lines 611-658).                                                        *)
(***************************************************************************)
stat_keys == << <<"ball_possession">>, <<"total_shots">>, <<"shots_on_target">>,
                <<"big_chances">>, <<"accurate_passes">>, <<"fouls_committed">>,
                <<"corners">>, <<"expected_goals_xg">> >>

RECURSIVE matches_with_formation(_, _)
\* line 614
matches_with_formation(matches, formation) ==
    IF matches = <<>> THEN <<>>
    ELSE (IF matches[1].formation = formation THEN <<matches[1]>> ELSE <<>>)
         \o matches_with_formation(Tail(matches), formation)

\* lines 626-628: a match without the statistic counts as 0
avg_stat(formation_matches, key) ==
    LET values == [i \in 1..Len(formation_matches) |->
                      DictGet(formation_matches[i].stats, key, 0)]
    IN IF values # <<>> THEN Frac(SumSeq(values), Len(values)) ELSE Zero

\* the shots branch tried before the possession branches
style_shots_first(formation_data, avg_stats) ==
    LET possession == DictGet(avg_stats, <<"ball_possession">>, Zero)
        goals_avg == formation_data.goals_for_avg
    IN IF FracGT(DictGet(avg_stats, <<"total_shots">>, Zero), Frac(13, 1))
          THEN "Direct Attack"
       ELSE IF FracGT(possession, Frac(55, 1))
          THEN IF FracGT(goals_avg, Frac(15, 10)) THEN "Possession Attack"
               ELSE "Possession Control"
       ELSE IF FracGT(Frac(1, 1), formation_data.goals_against_avg)
          THEN "Defensive Solid"
       ELSE "Balanced"

\* lines 643-658; the labels are written without their leading symbol
determine_formation_style(formation_data, avg_stats) ==
    LET possession == DictGet(avg_stats, <<"ball_possession">>, Zero)
        goals_avg == formation_data.goals_for_avg
    IN IF FracGT(possession, Frac(55, 1))
          THEN IF FracGT(goals_avg, Frac(15, 10)) THEN "Possession Attack"
               ELSE "Possession Control"
       ELSE IF FracGT(DictGet(avg_stats, <<"total_shots">>, Zero), Frac(13, 1))
          THEN "Direct Attack"
       ELSE IF FracGT(Frac(1, 1), formation_data.goals_against_avg)
          THEN "Defensive Solid"
       ELSE "Balanced"

\* lines 616-641
performance_entry(formation_matches, formation_data) ==
    LET avg_stats == [i \in 1..Len(stat_keys) |->
                         [key |-> stat_keys[i],
                          val |-> avg_stat(formation_matches, stat_keys[i])]]
    IN [matches |-> Len(formation_matches),
        avg_xG |-> DictGet(avg_stats, <<"expected_goals_xg">>, Zero),
        avg_possession |-> DictGet(avg_stats, <<"ball_possession">>, Zero),
        avg_shots |-> DictGet(avg_stats, <<"total_shots">>, Zero),
        avg_shots_on_target |-> DictGet(avg_stats, <<"shots_on_target">>, Zero),
        avg_big_chances |-> DictGet(avg_stats, <<"big_chances">>, Zero),
        avg_accurate_passes |-> DictGet(avg_stats, <<"accurate_passes">>, Zero),
        avg_fouls |-> DictGet(avg_stats, <<"fouls_committed">>, Zero),
        avg_corners |-> DictGet(avg_stats, <<"corners">>, Zero),
        style_profile |-> determine_formation_style(formation_data, avg_stats)]

\* every key of formations was used by a match, so formation_matches is never empty
analyze_formation_performance(matches, formations) ==
    [i \in 1..Len(formations) |->
        [key |-> formations[i].key,
         val |-> performance_entry(matches_with_formation(matches, formations[i].key),
                                   formations[i].val)]]

(***************************************************************************)
(* _analyze_substitution_patterns (lines 526-608).  A substitution event   *)
(* is [player_id, minute]; minute is optional (the key may be absent) and  *)
(* a string, a sequence of characters.                                     *)
(***************************************************************************)
Digits == {"0", "1", "2", "3", "4", "5", "6", "7", "8", "9"}

DigitVal(c) ==
    CASE c = "0" -> 0 [] c = "1" -> 1 [] c = "2" -> 2 [] c = "3" -> 3 [] c = "4" -> 4
      [] c = "5" -> 5 [] c = "6" -> 6 [] c = "7" -> 7 [] c = "8" -> 8 [] c = "9" -> 9

RECURSIVE DecimalValue(_, _)
DecimalValue(chars, acc) ==
    IF chars = <<>> THEN acc
    ELSE DecimalValue(Tail(chars), acc * 10 + DigitVal(chars[1]))

\* int(s) and float(s) on a string of the model's alphabets (digits, + ' % ( ) and a
\* letter, no sign, point or underscore; blanks are handled by the caller's strip):
\* a non-empty string of digits converts, anything else is a ValueError
parse_digits(chars) ==
    IF chars # <<>> /\ \A i \in 1..Len(chars) : chars[i] \in Digits
       THEN Ok(DecimalValue(chars, 0))
    ELSE Raise("ValueError")

RECURSIVE remove_char(_, _)
\* s.replace(c, '')
remove_char(chars, c) ==
    IF chars = <<>> THEN <<>>
    ELSE (IF chars[1] = c THEN <<>> ELSE <<chars[1]>>) \o remove_char(Tail(chars), c)

RECURSIVE split_first(_, _)
\* s.split(sep)[0]: the characters before the first sep
split_first(chars, sep) ==
    IF chars = <<>> \/ chars[1] = sep THEN <<>>
    ELSE <<chars[1]>> \o split_first(Tail(chars), sep)

\* line 568: int(str(sub_minute).replace("'", "").split("+")[0])
parse_minute(sub_minute) == parse_digits(split_first(remove_char(sub_minute, "'"), "+"))

\* a failed conversion recorded as minute 0
record_minute_zeroed(sub_minutes, sub_event) ==
    IF IsNone(sub_event.minute) THEN sub_minutes
    ELSE LET minute_num == parse_minute(Val(sub_event.minute))
         IN IF minute_num.kind = "ok" THEN Append(sub_minutes, Val(minute_num.val))
            ELSE Append(sub_minutes, 0)

\* lines 565-571: an absent minute is 'Unknown'; a failed conversion is passed over
record_minute(sub_minutes, sub_event) ==
    IF IsNone(sub_event.minute) THEN sub_minutes
    ELSE LET minute_num == parse_minute(Val(sub_event.minute))
         IN IF minute_num.kind = "ok" THEN Append(sub_minutes, Val(minute_num.val))
            ELSE sub_minutes

\* lines 528-539
NewSubAnalysis ==
    [total_sub_apps |-> 0, goals_as_sub |-> 0, assists_as_sub |-> 0, xG_as_sub |-> 0,
     avg_sub_minute |-> 0, sub_minutes |-> <<>>,
     results_when_subbed |-> [W |-> 0, D |-> 0, L |-> 0],
     avg_rating_as_sub |-> 0, total_rating_as_sub |-> 0, rating_count_as_sub |-> 0,
     name |-> ""]

\* only the first roster entry looked up
sub_players_data_first(substitutes, acc) ==
    IF substitutes = <<>> THEN acc ELSE DictSet(acc, substitutes[1].id, substitutes[1])

RECURSIVE sub_players_data(_, _)
\* line 550: {player['id']: player}; a later entry of the same id replaces the earlier
sub_players_data(substitutes, acc) ==
    IF substitutes = <<>> THEN acc
    ELSE sub_players_data(Tail(substitutes), DictSet(acc, substitutes[1].id, substitutes[1]))

\* lines 559-581
track_sub_event(sa, sub_event, player_full_data, match) ==
    LET rating == rating_of(player_full_data)
        sa1 == [sa EXCEPT !.total_sub_apps = @ + 1,
                          !.results_when_subbed = bump_result(@, match.result),
                          !.sub_minutes = record_minute(@, sub_event),
                          !.goals_as_sub = @ + player_full_data.goals,
                          !.assists_as_sub = @ + player_full_data.assists,
                          !.xG_as_sub = @ + player_full_data.xG]
    IN IF rating > 0
          THEN [sa1 EXCEPT !.total_rating_as_sub = @ + rating,
                           !.rating_count_as_sub = @ + 1]
       ELSE sa1

RECURSIVE fold_sub_events(_, _, _, _)
\* lines 552-581
fold_sub_events(events, players, match, acc) ==
    IF events = <<>> THEN acc
    ELSE LET sub_event == events[1]
             player_id == sub_event.player_id
         IN IF DictHas(players, player_id)
               THEN fold_sub_events(Tail(events), players, match,
                        DictSet(acc, player_id,
                            track_sub_event(DictGet(acc, player_id, NewSubAnalysis),
                                            sub_event, DictGet(players, player_id, <<>>),
                                            match)))
            ELSE fold_sub_events(Tail(events), players, match, acc)

RECURSIVE fold_substitutions(_, _)
\* lines 541-581
fold_substitutions(matches, acc) ==
    IF matches = <<>> THEN acc
    ELSE fold_substitutions(Tail(matches),
             fold_sub_events(matches[1].substitutions,
                             sub_players_data(matches[1].substitutes, <<>>),
                             matches[1], acc))

\* lines 585-605; ratings are in tenths, the rounded average in hundredths.  Every key
\* has a roster entry, which _analyze_player_rotations put in player_pool
sub_averages(sa, player_id, player_pool) ==
    [sa EXCEPT !.avg_sub_minute = IF sa.sub_minutes # <<>>
                                     THEN round_mean_tenths(sa.sub_minutes) ELSE @,
               !.avg_rating_as_sub = IF sa.rating_count_as_sub > 0
                                        THEN RoundDiv(10 * sa.total_rating_as_sub,
                                                      sa.rating_count_as_sub)
                                     ELSE @,
               !.name = DictGet(player_pool, player_id, [name |-> ""]).name]

analyze_substitution_patterns(matches, player_pool) ==
    LET substitution_analysis == fold_substitutions(matches, <<>>)
    IN [i \in 1..Len(substitution_analysis) |->
           [key |-> substitution_analysis[i].key,
            val |-> sub_averages(substitution_analysis[i].val,
                                 substitution_analysis[i].key, player_pool)]]

(***************************************************************************)
(* _parse_numeric_string (lines 218-233).  A value is                      *)
(* [t, mant, exp10, chars]: t is "none", "int" (the integer               *)
(* mant * 10^exp10), "str" (the characters chars) or "other".              *)
(* float(n) of an int beyond the range of a double raises OverflowError.   *)
(***************************************************************************)
FloatMaxExp10 == 308

RECURSIVE lstrip(_)
lstrip(chars) == IF chars # <<>> /\ chars[1] = " " THEN lstrip(Tail(chars)) ELSE chars

RECURSIVE rstrip(_)
rstrip(chars) ==
    IF chars # <<>> /\ chars[Len(chars)] = " " THEN rstrip(SubSeq(chars, 1, Len(chars) - 1))
    ELSE chars

\* float(s): blanks around the numeral are ignored
float_of_str(chars) == parse_digits(rstrip(lstrip(chars)))

\* float(n) for an int n (line 223)
float_of_int(value) ==
    IF value.mant # 0 /\ value.exp10 > FloatMaxExp10 THEN Raise("OverflowError")
    ELSE Ok([mant |-> value.mant, exp10 |-> value.exp10])

HasChar(chars, c) == \E i \in 1..Len(chars) : chars[i] = c

\* lines 226-229
value_to_parse(chars) ==
    IF HasChar(chars, " ") /\ HasChar(chars, "(") /\ HasChar(chars, ")")
       THEN split_first(chars, " ")
    ELSE remove_char(chars, "%")

Number(n) == [mant |-> n, exp10 |-> 0]

parse_numeric_string(value) ==
    IF value.t = "none" THEN Ok(Number(0))
    ELSE IF value.t = "int" THEN float_of_int(value)
    ELSE IF value.t = "str"
       THEN LET parsed == float_of_str(value_to_parse(value.chars))
            IN IF parsed.kind = "raise" THEN Ok(Number(0))
               ELSE Ok(Number(Val(parsed.val)))
    ELSE Ok(Number(0))

(***************************************************************************)
(* _safe_get (lines 201-216).  A JSON value is [t, n, items]: t is "dict"  *)
(* (items is an association list with character-sequence keys), "list"    *)
(* (items is the sequence of elements), "num" (the number n) or "null"     *)
(* (None).  The path is a sequence of characters.                          *)
(***************************************************************************)
JNull == [t |-> "null", n |-> 0, items |-> <<>>]
JNum(n) == [t |-> "num", n |-> n, items |-> <<>>]
JList(items) == [t |-> "list", n |-> 0, items |-> items]
JDict(items) == [t |-> "dict", n |-> 0, items |-> items]

RECURSIVE split_all(_, _, _, _)
\* line 203: path.split('.'), every piece between separators, the empty ones included
split_all(chars, sep, piece, acc) ==
    IF chars = <<>> THEN Append(acc, piece)
    ELSE IF chars[1] = sep THEN split_all(Tail(chars), sep, <<>>, Append(acc, piece))
    ELSE split_all(Tail(chars), sep, Append(piece, chars[1]), acc)

\* the characters str.isdigit accepts and int() refuses: a superscript digit
SuperscriptDigits == {"^2"}

\* line 208: key.isdigit() is true of a non-empty key whose characters all have the
\* Unicode property Digit, which the superscript digits have as well
isdigit(key) == key # <<>> /\ \A i \in 1..Len(key) : key[i] \in Digits \cup SuperscriptDigits

RECURSIVE safe_get_from(_, _, _)
\* lines 205-216
safe_get_from(current, keys, default) ==
    IF keys = <<>> THEN Ok(IF current.t # "null" THEN current ELSE default)
    ELSE LET key == keys[1]
         IN IF current.t = "dict" /\ DictHas(current.items, key)
               THEN safe_get_from(DictGet(current.items, key, JNull), Tail(keys), default)
            ELSE IF current.t = "list" /\ isdigit(key)
               THEN LET idx == parse_digits(key)
                    IN IF idx.kind = "raise" THEN idx
                       ELSE IF 0 <= Val(idx.val) /\ Val(idx.val) < Len(current.items)
                          THEN safe_get_from(current.items[Val(idx.val) + 1], Tail(keys),
                                             default)
                       ELSE Ok(default)
            ELSE Ok(default)

safe_get(obj, path, default) == safe_get_from(obj, split_all(path, ".", <<>>, <<>>), default)

(***************************************************************************)
(* analyze_team_tactical_profile (lines 235-273).                          *)
(***************************************************************************)
\* "if not self.data": None and the empty list alike
no_data(d) == IsNone(d) \/ Val(d) = <<>>

\* the aggregators run on an empty matches list
no_matches_ignored(matches) == FALSE

\* line 255: "if not team_data['matches']"
no_matches(matches) == matches = <<>>

\* lines 261-273: the four aggregators over the sorted matches
build_team_data(team_name, matches) ==
    LET formations == analyze_team_formations(matches)
        player_pool == analyze_player_rotations(matches)
    IN [team_name |-> team_name,
        matches |-> matches,
        formations |-> formations,
        player_pool |-> player_pool,
        performance_by_formation |-> analyze_formation_performance(matches, formations),
        substitution_data |-> <<>>,
        substitution_analysis |-> analyze_substitution_patterns(matches, player_pool)]

analyze_team_tactical_profile(d, team_name) ==
    IF no_data(d) THEN RetNone
    ELSE LET extracted == extract_matches(Val(d), team_name, <<>>)
         IN IF extracted.kind = "raise" THEN extracted
            ELSE IF no_matches(Val(extracted.val)) THEN RetNone
            ELSE LET sorted == sort_by_date(Val(extracted.val))
                 IN IF sorted.kind = "raise" THEN sorted
                    ELSE Ok(build_team_data(team_name, Val(sorted.val)))

RECURSIVE without_team(_, _)
without_team(docs, team_name) ==
    IF docs = <<>> THEN <<>>
    ELSE (IF team_not_in_match(docs[1], team_name) THEN <<docs[1]>> ELSE <<>>)
         \o without_team(Tail(docs), team_name)

\* the team's documents taken out of self.data as they are read
data_consumed_by_analyze(d, team_name) ==
    IF IsNone(d) THEN d ELSE Some(without_team(Val(d), team_name))

\* the result kept in self.team_analysis[team_name]
team_analysis_caching(ta, team_name, result) == DictSet(ta, team_name, result)

\* the method assigns neither self.data nor self.team_analysis, and changes no document
data_after_analyze(d, team_name) == d
team_analysis_after_analyze(ta, team_name, result) == ta

(***************************************************************************)
(* create_team_report (lines 660-755).  The report text is modelled by its *)
(* structure: the role sections with their player lines in order, and the  *)
(* formation sections in order.                                            *)
(***************************************************************************)
ReportTopN == 20

role_order == <<"Key Player", "Regular Starter", "Squad Rotation", "Fringe Player",
                "Non-playing">>

\* line 690: key (starts, total_minutes, avg_rating), a > b
player_key_gt(a, b) ==
    \/ a.starts > b.starts
    \/ a.starts = b.starts /\ a.total_minutes > b.total_minutes
    \/ a.starts = b.starts /\ a.total_minutes = b.total_minutes
       /\ FracGT(a.avg_rating, b.avg_rating)

RECURSIVE insert_player(_, _)
\* sorted(..., reverse=True) is stable: p goes after every player whose key is >= its own
insert_player(sorted, p) ==
    IF sorted = <<>> THEN <<p>>
    ELSE IF player_key_gt(p, sorted[1]) THEN <<p>> \o sorted
    ELSE <<sorted[1]>> \o insert_player(Tail(sorted), p)

RECURSIVE sort_players(_, _)
sort_players(players, acc) ==
    IF players = <<>> THEN acc
    ELSE sort_players(Tail(players), insert_player(acc, players[1]))

RECURSIVE players_with_role(_, _)
\* lines 677-679
players_with_role(player_pool, role) ==
    IF player_pool = <<>> THEN <<>>
    ELSE LET p == player_pool[1].val
         IN (IF p.name # "" /\ p.total_appearances > 0 /\ p.role = role
                THEN <<p>> ELSE <<>>)
            \o players_with_role(Tail(player_pool), role)

RECURSIVE role_sections(_, _)
\* lines 684-724
role_sections(player_pool, roles) ==
    IF roles = <<>> THEN <<>>
    ELSE LET players == players_with_role(player_pool, roles[1])
             sorted_players == sort_players(players, <<>>)
             shown == IF Len(sorted_players) > ReportTopN
                         THEN SubSeq(sorted_players, 1, ReportTopN) ELSE sorted_players
         IN (IF players # <<>>
                THEN <<[role |-> roles[1], count |-> Len(players), lines |-> shown]>>
             ELSE <<>>)
            \o role_sections(player_pool, Tail(roles))

RECURSIVE insert_formation(_, _)
\* lines 730-734: by usage_count, descending, stable
insert_formation(sorted, f) ==
    IF sorted = <<>> THEN <<f>>
    ELSE IF f.val.usage_count > sorted[1].val.usage_count THEN <<f>> \o sorted
    ELSE <<sorted[1]>> \o insert_formation(Tail(sorted), f)

RECURSIVE sort_formations(_, _)
sort_formations(formations, acc) ==
    IF formations = <<>> THEN acc
    ELSE sort_formations(Tail(formations), insert_formation(acc, formations[1]))

\* lines 736-753
formation_sections(team_data) ==
    LET sorted_formations == sort_formations(team_data.formations, <<>>)
    IN [i \in 1..Len(sorted_formations) |->
           [formation |-> sorted_formations[i].key,
            data |-> sorted_formations[i].val,
            perf_data |-> DictGet(team_data.performance_by_formation,
                                  sorted_formations[i].key, <<>>)]]

NoDataFound(team_name) ==
    [no_data |-> TRUE, team_name |-> team_name, roles |-> <<>>, formations |-> <<>>]

create_team_report(d, team_name) ==
    LET result == analyze_team_tactical_profile(d, team_name)
    IN IF result.kind = "raise" THEN result
       ELSE IF result.kind = "None" THEN Ok(NoDataFound(team_name))
       ELSE Ok([no_data |-> FALSE,
                team_name |-> team_name,
                roles |-> role_sections(Val(result.val).player_pool, role_order),
                formations |-> formation_sections(Val(result.val))])

(***************************************************************************)
(* load_optimized_data (lines 120-199) for a JSON list of matches, or an   *)
(* object with 'matches' and no 'teams': the team names are collected from *)
(* the documents.  sorted(list(teams)) is determined by the set.           *)
(***************************************************************************)
teams_of(docs) ==
    {docs[i].home_team : i \in {j \in 1..Len(docs) : docs[j].home_team # ""}}
    \cup {docs[i].away_team : i \in {j \in 1..Len(docs) : docs[j].away_team # ""}}

(***************************************************************************)
(* The documents of the model.                                             *)
(***************************************************************************)
Teams == {"A", "B", "C"}

Player(id, position, rating) ==
    [id |-> id, name |-> id, position |-> position, rating |-> rating,
     minutes |-> 90, goals |-> 1, assists |-> 2, xG |-> 3]

Event(player_id, minute) == [player_id |-> player_id, minute |-> minute]

\* the squads of the state machine's documents: a starter, and a substitute who comes on
Starter(team) == Player(<<team, 1>>, "GK", Some(70))
Substitute(team) == Player(<<team, 2>>, "ST", Some(65))

Fixtures == {<<"A", "B">>, <<"B", "C">>}
Dates == {1, 2}
ScoreLines == {<<None, None>>, <<Some(1), Some(0)>>}

MkDoc(home, away, scores, date) ==
    [home_team |-> home, away_team |-> away,
     home_score |-> scores[1], away_score |-> scores[2],
     home_formation |-> Some("4-3-3"), away_formation |-> Some("4-4-2"),
     home_lineup |-> <<Starter(home)>>, away_lineup |-> <<Starter(away)>>,
     home_subs |-> <<Substitute(home)>>, away_subs |-> <<Substitute(away)>>,
     substitutions |-> [home |-> <<Event(<<home, 2>>, Some(<<"6", "0">>))>>,
                        away |-> <<>>],
     stats |-> << [key |-> <<"home_", "ball_possession">>, val |-> 60],
                  [key |-> <<"away_", "ball_possession">>, val |-> 40] >>,
     date |-> Some(date),
     match_id |-> <<home, away, scores, date>>,
     league |-> None, round |-> None]

Docs == {MkDoc(f[1], f[2], sc, d) : f \in Fixtures, sc \in ScoreLines, d \in Dates}

SeqsUpTo(S, n) == UNION {[1..k -> S] : k \in 0..n}

Collections == SeqsUpTo(Docs, MaxDocs)

(***************************************************************************)
(* The state machine: the analyzer of the session (line 760), loaded once  *)
(* (lines 769-772), then asked for profiles and reports.  first_out,       *)
(* between and again are history variables: the team and the outcome of    *)
(* the first analysis since the load, whether another team was analysed    *)
(* after it, and whether the last call analysed the first team again.      *)
(* inp and out hold the argument and the result of a helper applied on its *)
(* own.                                                                    *)
(***************************************************************************)
Call(name, team) == [name |-> name, team |-> team]

Init ==
    /\ data = None
    /\ team_names = {}
    /\ team_analysis = <<>>
    /\ data_loaded = FALSE
    /\ op = Call("init", "")
    /\ ret = RetNone
    /\ first_out = <<>>
    /\ between = FALSE
    /\ again = FALSE
    /\ inp = <<>>
    /\ out = <<>>

load_optimized_data(docs) ==
    /\ ~data_loaded
    /\ data' = Some(docs)
    /\ team_names' = teams_of(docs)
    /\ data_loaded' = (teams_of(docs) # {})
    /\ op' = Call("load", "")
    /\ ret' = Ok(teams_of(docs) # {})
    /\ first_out' = <<>>
    /\ between' = FALSE
    /\ again' = FALSE
    /\ UNCHANGED <<team_analysis, inp, out>>

\* lines 186-199: the request fails, nothing is stored
load_failed ==
    /\ ~data_loaded
    /\ op' = Call("load", "")
    /\ ret' = Ok(FALSE)
    /\ again' = FALSE
    /\ UNCHANGED <<data, team_names, team_analysis, data_loaded, first_out, between,
                   inp, out>>

analyze(team_name) ==
    LET result == analyze_team_tactical_profile(data, team_name)
    IN /\ ret' = result
       /\ data' = data_after_analyze(data, team_name)
       /\ team_analysis' = team_analysis_after_analyze(team_analysis, team_name, result)
       /\ op' = Call("analyze", team_name)
       /\ first_out' = IF first_out = <<>>
                          THEN <<[team |-> team_name, result |-> result]>>
                       ELSE first_out
       /\ between' = (between \/ (first_out # <<>> /\ first_out[1].team # team_name))
       /\ again' = (first_out # <<>> /\ first_out[1].team = team_name)
       /\ UNCHANGED <<team_names, data_loaded, inp, out>>

report(team_name) ==
    LET result == create_team_report(data, team_name)
    IN /\ ret' = result
       /\ data' = data_after_analyze(data, team_name)
       /\ team_analysis' = team_analysis_after_analyze(team_analysis, team_name, result)
       /\ op' = Call("report", team_name)
       /\ again' = FALSE
       /\ UNCHANGED <<team_names, data_loaded, first_out, between, inp, out>>

Next ==
    \/ \E docs \in Collections : load_optimized_data(docs)
    \/ load_failed
    \/ \E team_name \in Teams : analyze(team_name)
    \/ \E team_name \in Teams : report(team_name)

Spec == Init /\ [][Next]_vars

(***************************************************************************)
(* The helpers applied on their own: the argument is drawn in the initial  *)
(* state and the helper is applied to it once.                             *)
(***************************************************************************)
InitHelper ==
    /\ data = None
    /\ team_names = {}
    /\ team_analysis = <<>>
    /\ data_loaded = FALSE
    /\ op = Call("input", "")
    /\ ret = RetNone
    /\ first_out = <<>>
    /\ between = FALSE
    /\ again = FALSE
    /\ out = <<>>

Apply(name, result) ==
    /\ op.name = "input"
    /\ op' = Call(name, "")
    /\ out' = <<result>>
    /\ UNCHANGED <<data, team_names, team_analysis, data_loaded, ret, first_out, between,
                   again, inp>>

\* a team's match sequence, already sorted: the dates are the positions
MkMatch(date, formation, team_score, opponent_score, starters, substitutes, substitutions) ==
    [date |-> Some(date), match_id |-> date, league |-> None, round |-> None,
     is_home |-> TRUE, opponent |-> "B", formation |-> formation,
     starters |-> starters, substitutes |-> substitutes, substitutions |-> substitutions,
     team_score |-> team_score, opponent_score |-> opponent_score,
     result |-> result_of(team_score, opponent_score),
     stats |-> ensure_xg(<<>>)]

\* _extract_team_match_info on one document and one team name
OptScores == {None} \cup {Some(n) : n \in 0..MaxScore}

ExtractDocs ==
    {[MkDoc(h, a, <<hs, as>>, 1) EXCEPT !.match_id = 1] :
        h \in Teams, a \in Teams, hs \in OptScores, as \in OptScores}

InitExtract ==
    /\ InitHelper
    /\ inp \in {[match |-> m, team_name |-> t] : m \in ExtractDocs, t \in Teams}

apply_extract == Apply("extract", extract_team_match_info(inp.match, inp.team_name))

SpecExtract == InitExtract /\ [][apply_extract]_vars

\* _analyze_team_formations on a match sequence
Formations == {None, Some(""), Some("4-3-3"), Some("4-4-2")}
FormationShapes == {[formation |-> f, score |-> sc] :
                       f \in Formations, sc \in {<<1, 0>>, <<0, 0>>, <<0, 1>>}}

formation_matches(shapes) ==
    [i \in 1..Len(shapes) |->
        MkMatch(i, shapes[i].formation, shapes[i].score[1], shapes[i].score[2],
                <<>>, <<>>, <<>>)]

InitFormations ==
    /\ InitHelper
    /\ inp \in {formation_matches(sh) : sh \in SeqsUpTo(FormationShapes, MaxMatches)}

apply_formations == Apply("formations", analyze_team_formations(inp))

SpecFormations == InitFormations /\ [][apply_formations]_vars

\* _analyze_formation_performance on a match sequence whose records carry or lack the
\* possession and the shots statistic
PerformanceShapes ==
    {[formation |-> f, possession |-> p, shots |-> sh] :
        f \in {Some("4-3-3"), Some("4-4-2")},
        p \in {None, Some(40), Some(60)},
        sh \in {None, Some(14)}}

performance_match(date, shape) ==
    [MkMatch(date, shape.formation, 1, 0, <<>>, <<>>, <<>>) EXCEPT
        !.stats = ensure_xg(
            (IF IsNone(shape.possession) THEN <<>>
             ELSE <<[key |-> <<"ball_possession">>, val |-> Val(shape.possession)]>>)
            \o (IF IsNone(shape.shots) THEN <<>>
                ELSE <<[key |-> <<"total_shots">>, val |-> Val(shape.shots)]>>))]

InitPerformance ==
    /\ InitHelper
    /\ inp \in {[i \in 1..Len(sh) |-> performance_match(i, sh[i])] :
                   sh \in SeqsUpTo(PerformanceShapes, MaxMatches)}

apply_performance ==
    Apply("performance", analyze_formation_performance(inp, analyze_team_formations(inp)))

SpecPerformance == InitPerformance /\ [][apply_performance]_vars

\* _determine_formation_style on one formation entry and one table of averages
StyleInputs ==
    {[formation_data |-> [goals_for_avg |-> gf, goals_against_avg |-> ga],
      avg_stats |-> (IF p = <<>> THEN <<>>
                     ELSE <<[key |-> <<"ball_possession">>, val |-> p[1]]>>)
                    \o (IF sh = <<>> THEN <<>>
                        ELSE <<[key |-> <<"total_shots">>, val |-> sh[1]]>>)] :
        gf \in {Frac(1, 1), Frac(3, 2), Frac(2, 1)},
        ga \in {Frac(0, 1), Frac(1, 2), Frac(1, 1), Frac(2, 1)},
        p \in {<<>>, <<Frac(50, 1)>>, <<Frac(55, 1)>>, <<Frac(111, 2)>>, <<Frac(56, 1)>>},
        sh \in {<<>>, <<Frac(13, 1)>>, <<Frac(27, 2)>>, <<Frac(14, 1)>>}}

InitStyle ==
    /\ InitHelper
    /\ inp \in StyleInputs

apply_style == Apply("style", determine_formation_style(inp.formation_data, inp.avg_stats))

SpecStyle == InitStyle /\ [][apply_style]_vars

\* _analyze_player_rotations on a match sequence: player P2 starts every match, and
\* player P1 is absent, in the lineup once or twice, or in the substitute roster with or
\* without a substitution event, with no rating, the rating 0 or a positive one
Ratings == {None, Some(0), Some(60), Some(81)}
RotationShapes ==
    {[role |-> "absent", rating |-> None]}
    \cup {[role |-> r, rating |-> x] : r \in {"start", "start_twice", "bench", "sub"},
                                      x \in Ratings}

rotation_match(date, shape) ==
    LET p1 == Player("P1", "ST", shape.rating)
        p2 == Player("P2", "GK", Some(70))
    IN MkMatch(date, Some("4-3-3"), 1, 0,
               IF shape.role = "start" THEN <<p2, p1>>
               ELSE IF shape.role = "start_twice" THEN <<p1, p2, p1>>
               ELSE <<p2>>,
               IF shape.role \in {"bench", "sub"} THEN <<p1>> ELSE <<>>,
               IF shape.role = "sub" THEN <<Event("P1", Some(<<"6", "0">>))>> ELSE <<>>)

rotation_matches(shapes) == [i \in 1..Len(shapes) |-> rotation_match(i, shapes[i])]

InitRotations ==
    /\ InitHelper
    /\ inp \in {rotation_matches(sh) : sh \in SeqsUpTo(RotationShapes, MaxMatches)}

apply_rotations == Apply("rotations", analyze_player_rotations(inp))

SpecRotations == InitRotations /\ [][apply_rotations]_vars

\* _analyze_player_rotations on longer match sequences, for the role thresholds: P1 is
\* absent, starts, is an unused substitute or comes on
RoleShapes == {[role |-> r, rating |-> Some(70)] : r \in {"absent", "start", "bench", "sub"}}

InitRoles ==
    /\ InitHelper
    /\ inp \in {rotation_matches(sh) : sh \in SeqsUpTo(RoleShapes, MaxRoleMatches)}

apply_roles == Apply("roles", analyze_player_rotations(inp))

SpecRoles == InitRoles /\ [][apply_roles]_vars

\* and for the form window: P1 starts with the rating 8.1, 6.0 or 0, or comes on with 7.0
FormShapes ==
    {[role |-> "start", rating |-> x] : x \in {Some(81), Some(60), Some(0)}}
    \cup {[role |-> "sub", rating |-> Some(70)]}

InitForm ==
    /\ InitHelper
    /\ inp \in {rotation_matches(sh) : sh \in SeqsUpTo(FormShapes, MaxFormMatches)}

apply_form == Apply("form", analyze_player_rotations(inp))

SpecForm == InitForm /\ [][apply_form]_vars

\* _analyze_player_rotations on a match sequence in which P1 is absent or starts, over
\* the formation of the match (one of two, or null) and the position of P1
PrimaryShapes ==
    {[role |-> "absent", formation |-> None, position |-> ""]}
    \cup {[role |-> "start", formation |-> f, position |-> pos] :
             f \in {None, Some("4-3-3"), Some("4-4-2")}, pos \in {"ST", "LW"}}

primary_match(date, shape) ==
    MkMatch(date, shape.formation, 1, 0,
            IF shape.role = "start"
               THEN <<Player("P2", "GK", Some(70)), Player("P1", shape.position, Some(70))>>
            ELSE <<Player("P2", "GK", Some(70))>>,
            <<>>, <<>>)

InitPrimary ==
    /\ InitHelper
    /\ inp \in {[i \in 1..Len(sh) |-> primary_match(i, sh[i])] :
                   sh \in SeqsUpTo(PrimaryShapes, MaxMatches)}

apply_primary == Apply("primary", analyze_player_rotations(inp))

SpecPrimary == InitPrimary /\ [][apply_primary]_vars

\* _analyze_substitution_patterns on one match in which P1 comes on, over the minute
\* of the substitution event
MinuteAlphabet == {"4", "5", "+", "'", "x"}
Minutes == {None} \cup {Some(m) : m \in SeqsUpTo(MinuteAlphabet, MaxMinuteLen)}

minute_match(minute) ==
    MkMatch(1, Some("4-3-3"), 1, 0, <<Player("P2", "GK", Some(70))>>,
            <<Player("P1", "ST", Some(65))>>, <<Event("P1", minute)>>)

InitMinute ==
    /\ InitHelper
    /\ inp \in Minutes

apply_substitutions ==
    Apply("substitutions",
          analyze_substitution_patterns(<<minute_match(inp)>>,
                                        analyze_player_rotations(<<minute_match(inp)>>)))

SpecMinute == InitMinute /\ [][apply_substitutions]_vars

\* _analyze_player_rotations and _analyze_substitution_patterns on one match sequence,
\* as lines 265 and 271 run them.  P2 starts and P3 comes on in every match; P1 is
\* absent, starts, is an unused substitute, comes on (with no rating, the rating 0 or a
\* positive one), has a substitution event without a roster entry, two events, or two
\* roster entries.  The results of the matches go W, D, L in turn
SubShapes ==
    {[role |-> "absent", rating |-> None], [role |-> "start", rating |-> Some(70)],
     [role |-> "bench", rating |-> Some(81)], [role |-> "event_only", rating |-> None],
     [role |-> "two_events", rating |-> Some(60)],
     [role |-> "roster_twice", rating |-> Some(60)]}
    \cup {[role |-> "sub", rating |-> x] : x \in Ratings}

sub_match(date, shape) ==
    LET p1 == Player("P1", "ST", shape.rating)
        p2 == Player("P2", "GK", Some(70))
        p3 == Player("P3", "LW", Some(65))
        e1 == Event("P1", Some(<<"6", "0">>))
        e3 == Event("P3", Some(<<"7", "5">>))
        score == IF date % 3 = 1 THEN <<1, 0>> ELSE IF date % 3 = 2 THEN <<0, 0>> ELSE <<0, 1>>
    IN MkMatch(date, Some("4-3-3"), score[1], score[2],
               IF shape.role = "start" THEN <<p2, p1>> ELSE <<p2>>,
               IF shape.role \in {"bench", "sub", "two_events"} THEN <<p1, p3>>
               ELSE IF shape.role = "roster_twice" THEN <<p1, p1, p3>>
               ELSE <<p3>>,
               IF shape.role \in {"sub", "roster_twice", "event_only"} THEN <<e1, e3>>
               ELSE IF shape.role = "two_events" THEN <<e1, e1, e3>>
               ELSE <<e3>>)

InitSubs ==
    /\ InitHelper
    /\ inp \in {[i \in 1..Len(sh) |-> sub_match(i, sh[i])] :
                   sh \in SeqsUpTo(SubShapes, MaxMatches)}

apply_subs ==
    LET player_pool == analyze_player_rotations(inp)
    IN Apply("subs", [player_pool |-> player_pool,
                      substitution_analysis |->
                          analyze_substitution_patterns(inp, player_pool)])

SpecSubs == InitSubs /\ [][apply_subs]_vars

\* _parse_numeric_string on one value
ParseAlphabet == {"5", "7", "%", " ", "(", ")", "a"}
PyValue(t, mant, exp10, chars) == [t |-> t, mant |-> mant, exp10 |-> exp10, chars |-> chars]
ParseValues ==
    {PyValue("none", 0, 0, <<>>), PyValue("other", 0, 0, <<>>)}
    \cup {PyValue("int", m, e, <<>>) : m \in {0, 5, 57}, e \in {0, 400}}
    \cup {PyValue("str", 0, 0, c) : c \in SeqsUpTo(ParseAlphabet, MaxStrLen)}

InitParse ==
    /\ InitHelper
    /\ inp \in ParseValues

apply_parse == Apply("parse", parse_numeric_string(inp))

SpecParse == InitParse /\ [][apply_parse]_vars

\* _safe_get on one object, one path and one default.  "^2" stands for the single
\* character SUPERSCRIPT TWO
PathAlphabet == {"a", "0", "1", ".", "^2"}
SafeGetObjects ==
    {JDict(<< [key |-> <<"a">>,
               val |-> JList(<<JNum(10), JDict(<<[key |-> <<"1">>, val |-> JNum(3)]>>)>>)],
              [key |-> <<"0">>, val |-> JNull] >>),
     JList(<<JNum(1), JList(<<JNull, JNum(2)>>)>>),
     JNum(4),
     JNull}
SafeGetDefaults == {JNull, JNum(99)}

InitSafeGet ==
    /\ InitHelper
    /\ inp \in {[obj |-> o, path |-> p, default |-> d] :
                   o \in SafeGetObjects, p \in SeqsUpTo(PathAlphabet, MaxPathLen),
                   d \in SafeGetDefaults}

apply_safe_get == Apply("safe_get", safe_get(inp.obj, inp.path, inp.default))

SpecSafeGet == InitSafeGet /\ [][apply_safe_get]_vars

(***************************************************************************)
(* Properties.                                                             *)
(***************************************************************************)
SameOutcome(a, b) == a.kind = b.kind /\ a.val = b.val

Involves(doc, team_name) == doc.home_team = team_name \/ doc.away_team = team_name
CountDocs(docs, d) == Cardinality({i \in 1..Len(docs) : docs[i] = d})
CountMatches(matches, id) == Cardinality({i \in 1..Len(matches) : matches[i].match_id = id})

\* C1: the matches list of a profile holds exactly one record per document in which the
\* team is the home or the away side and none for any other document; when no profile
\* is returned for a loaded collection (None), no document involves the team.
C1_OnlyTeamMatches ==
    (op.name = "analyze" /\ ~IsNone(data)) =>
        /\ ret.kind = "ok" =>
               \A d \in Docs :
                   CountMatches(Val(ret.val).matches, d.match_id)
                       = IF Involves(d, op.team) THEN CountDocs(Val(data), d) ELSE 0
        /\ ret.kind = "None" =>
               \A i \in 1..Len(Val(data)) : ~Involves(Val(data)[i], op.team)

C1_Witness ==
    /\ op.name = "analyze" /\ ret.kind = "ok" /\ ~IsNone(data)
    /\ \E i, j \in 1..Len(Val(data)) :
           Involves(Val(data)[i], op.team) /\ ~Involves(Val(data)[j], op.team)
    /\ Len(Val(ret.val).matches) = 1

\* C2: every record _extract_team_match_info produces carries the score of the team's
\* side as team_score (the home score when the team is home, the away score when
\* away) and exactly one result: W iff team_score > opponent_score, D iff they are
\* equal, L otherwise.
C2_ResultClassification ==
    (op.name = "extract" /\ out[1].kind = "ok") =>
        LET m == Val(out[1].val)
            home == inp.team_name = inp.match.home_team
            ts == Val(IF home THEN inp.match.home_score ELSE inp.match.away_score)
            os == Val(IF home THEN inp.match.away_score ELSE inp.match.home_score)
        IN /\ m.team_score = ts /\ m.opponent_score = os
           /\ m.result \in {"W", "D", "L"}
           /\ m.result = "W" <=> ts > os
           /\ m.result = "D" <=> ts = os
           /\ m.result = "L" <=> ts < os

C2_Witness ==
    /\ op.name = "extract" /\ out[1].kind = "ok"
    /\ ~Val(out[1].val).is_home
    /\ Val(out[1].val).team_score = 1 /\ Val(out[1].val).opponent_score = 1
    /\ Val(out[1].val).result = "D"

LacksScore(doc) == IsNone(doc.home_score) \/ IsNone(doc.away_score)

RECURSIVE WithoutUnscored(_, _)
\* the collection without the documents that name the team and lack a score
WithoutUnscored(docs, team_name) ==
    IF docs = <<>> THEN <<>>
    ELSE (IF Involves(docs[1], team_name) /\ LacksScore(docs[1]) THEN <<>> ELSE <<docs[1]>>)
         \o WithoutUnscored(Tail(docs), team_name)

\* C3: a document that names the team and lacks a score contributes no record and
\* raises no error: the analysis returns what it returns for the other documents.
C3_MissingScoreSkipped ==
    (op.name = "analyze" /\ ~IsNone(data)) =>
        /\ ret.kind # "raise"
        /\ SameOutcome(ret, analyze_team_tactical_profile(
                                Some(WithoutUnscored(Val(data), op.team)), op.team))

RECURSIVE SumUsage(_)
SumUsage(formations) ==
    IF formations = <<>> THEN 0
    ELSE formations[1].val.usage_count + SumUsage(Tail(formations))

OncePerLineup(matches, id) ==
    \A i \in 1..Len(matches) :
        Cardinality({k \in 1..Len(matches[i].starters) : matches[i].starters[k].id = id}) <= 1

RECURSIVE RatingsOf(_, _)
\* the ratings of the entries of a lineup or roster that carry the identifier
RatingsOf(players, id) ==
    IF players = <<>> THEN <<>>
    ELSE (IF players[1].id = id THEN <<rating_of(players[1])>> ELSE <<>>)
         \o RatingsOf(Tail(players), id)

RECURSIVE CountedRatings(_, _)
\* the ratings of a player's counted appearances, in order: the starts, and the roster
\* entries of the matches that have a substitution event for the player
CountedRatings(matches, id) ==
    IF matches = <<>> THEN <<>>
    ELSE RatingsOf(matches[1].starters, id)
         \o (IF \E k \in 1..Len(matches[1].substitutions) :
                    matches[1].substitutions[k].player_id = id
                THEN RatingsOf(matches[1].substitutes, id) ELSE <<>>)
         \o CountedRatings(Tail(matches), id)

Positive(ratings) == SelectSeq(ratings, LAMBDA r : r > 0)

\* C6: avg_rating is the mean of the ratings > 0 of the player's counted appearances
\* (0 when there is none): a rating of 0 and a missing rating are left out.
C6_AvgRatingSkipsZero ==
    op.name = "rotations" =>
        \A k \in 1..Len(out[1]) :
            LET positive == Positive(CountedRatings(inp, out[1][k].key))
                avg == out[1][k].val.avg_rating
            IN IF positive = <<>> THEN avg = Zero
               ELSE FracEQ(avg, Frac(SumSeq(positive), Len(positive)))

\* the ratings [0, none, 8.1] give 8.1
C6_Witness ==
    /\ op.name = "rotations"
    /\ CountedRatings(inp, "P1") = <<0, 0, 81>>
    /\ \E i \in 1..Len(inp) : \E k \in 1..Len(inp[i].starters) :
           inp[i].starters[k].id = "P1" /\ inp[i].starters[k].rating = None
    /\ FracEQ(DictGet(out[1], "P1", <<>>).avg_rating, Frac(81, 1))

\* C7: _parse_numeric_string returns a number for every value and never raises: a
\* number gives itself, None and a value of another type give 0, "57%" gives 57,
\* "5 (7)" gives the token before the first blank, and "a" gives 0.
C7_ParseNeverRaises ==
    op.name = "parse" =>
        /\ out[1].kind = "ok"
        /\ inp.t = "int" => Val(out[1].val) = [mant |-> inp.mant, exp10 |-> inp.exp10]
        /\ inp.t \in {"none", "other"} => Val(out[1].val) = Number(0)
        /\ (inp.t = "str" /\ inp.chars = <<"5", "7", "%">>) => Val(out[1].val) = Number(57)
        /\ (inp.t = "str" /\ inp.chars = <<"5", " ", "(", "7", ")">>)
              => Val(out[1].val) = Number(5)
        /\ (inp.t = "str" /\ inp.chars = <<"a">>) => Val(out[1].val) = Number(0)

\* the base integer of a minute string: the digits before the first '+', apostrophes
\* dropped; <<>> when that is not a number
BaseInteger(chars) ==
    LET cleaned == SelectSeq(chars, LAMBDA c : c # "'")
        plus == {i \in 1..Len(cleaned) : cleaned[i] = "+"}
        cut == IF plus = {} THEN Len(cleaned)
               ELSE (CHOOSE i \in plus : \A j \in plus : i <= j) - 1
        pow10[n \in 0..MaxMinuteLen + 1] == IF n = 0 THEN 1 ELSE 10 * pow10[n - 1]
        place[i \in 0..cut] ==
            IF i = 0 THEN 0 ELSE place[i - 1] + DigitVal(cleaned[i]) * pow10[cut - i]
    IN IF cut >= 1 /\ \A i \in 1..cut : cleaned[i] \in Digits THEN <<place[cut]>> ELSE <<>>

\* C8: the sample recorded for a substitution event is the base integer of its minute
\* (the stoppage offset after '+' is dropped, not added); an event whose minute is no
\* integer adds no sample, and the appearance is counted all the same.
C8_MinuteBaseInteger ==
    op.name = "substitutions" =>
        /\ DictHas(out[1], "P1")
        /\ DictGet(out[1], "P1", <<>>).total_sub_apps = 1
        /\ DictGet(out[1], "P1", <<>>).sub_minutes
              = IF IsNone(inp) THEN <<>> ELSE BaseInteger(Val(inp))

\* "45+5'" gives 45
C8_Witness ==
    /\ op.name = "substitutions"
    /\ inp = Some(<<"4", "5", "+", "5", "'">>)
    /\ DictGet(out[1], "P1", <<>>).sub_minutes = <<45>>
    /\ DictGet(out[1], "P1", <<>>).total_sub_apps = 1

Segments(path) ==
    LET dots == {i \in 1..Len(path) : path[i] = "."}
        cuts == {0} \cup dots \cup {Len(path) + 1}
        starts == [k \in 1..Cardinality(dots) + 1 |->
                      CHOOSE c \in cuts \ {Len(path) + 1} :
                          Cardinality({d \in cuts : d < c}) = k - 1]
    IN [k \in 1..Cardinality(dots) + 1 |->
           LET next == CHOOSE c \in cuts : c > starts[k] /\ \A d \in cuts : d > starts[k] => c <= d
           IN SubSeq(path, starts[k] + 1, next - 1)]

RECURSIVE Addressed(_, _)
\* the value a path addresses, <<v>>, or <<>> when a segment is an absent object key, a
\* list position out of range, a key that is not written in digits applied to a list, or
\* any segment applied to a value that is neither object nor list
Addressed(value, segments) ==
    IF segments = <<>> THEN <<value>>
    ELSE LET seg == segments[1]
         IN IF value.t = "dict"
               THEN IF \E i \in 1..Len(value.items) : value.items[i].key = seg
                       THEN Addressed(value.items[CHOOSE i \in 1..Len(value.items) :
                                                      value.items[i].key = seg].val,
                                      Tail(segments))
                    ELSE <<>>
            ELSE IF value.t = "list"
               THEN IF seg # <<>> /\ \A i \in 1..Len(seg) : seg[i] \in Digits
                       THEN IF DecimalValue(seg, 0) < Len(value.items)
                               THEN Addressed(value.items[DecimalValue(seg, 0) + 1],
                                              Tail(segments))
                            ELSE <<>>
                    ELSE <<>>
            ELSE <<>>

\* C11: _safe_get never raises; it returns the default when a segment of the path is
\* absent, out of range or applied to a value of the wrong type, and the addressed value
\* otherwise.
C11_SafeGetDefaultOrAddressed ==
    op.name = "safe_get" =>
        /\ out[1].kind = "ok"
        /\ LET addressed == Addressed(inp.obj, Segments(inp.path))
           IN Val(out[1].val) = IF addressed = <<>> THEN inp.default ELSE addressed[1]

RECURSIVE OnlyInvolving(_, _)
\* the collection with every document that does not involve the team removed
OnlyInvolving(docs, team_name) ==
    IF docs = <<>> THEN <<>>
    ELSE (IF Involves(docs[1], team_name) THEN <<docs[1]>> ELSE <<>>)
         \o OnlyInvolving(Tail(docs), team_name)

\* C12: the outcome of analyze_team_tactical_profile(T) on a collection is its outcome
\* on the collection with every document in which T is not a side removed; two
\* collections that differ only in such documents therefore give T the same profile.
C12_OnlyOwnDocuments ==
    (op.name = "analyze" /\ ~IsNone(data)) =>
        SameOutcome(ret, analyze_team_tactical_profile(
                             Some(OnlyInvolving(Val(data), op.team)), op.team))

C12_Witness ==
    /\ op.name = "analyze" /\ ret.kind = "ok" /\ ~IsNone(data)
    /\ Len(Val(data)) = 2
    /\ ~Involves(Val(data)[1], op.team) /\ Involves(Val(data)[2], op.team)
    /\ ret = analyze_team_tactical_profile(Some(<<Val(data)[2]>>), op.team)

NothingFor(d, team_name) ==
    \/ IsNone(d)
    \/ \A i \in 1..Len(Val(d)) : ~Involves(Val(d)[i], team_name)

\* C13: with no data loaded, an empty collection or a team that is in no document,
\* analyze_team_tactical_profile returns None (no profile, so no aggregate, and no
\* exception) and create_team_report returns the "No data found" message.
C13_NoDataOutcome ==
    NothingFor(data, op.team) =>
        /\ op.name = "analyze" => ret = RetNone
        /\ op.name = "report" => ret = Ok(NoDataFound(op.team))

C13_Witness ==
    /\ op.name = "report" /\ ~IsNone(data) /\ Val(data) # <<>>
    /\ NothingFor(data, op.team)
    /\ ret = Ok(NoDataFound(op.team))

RECURSIVE StartEntries(_, _)
\* the player's entries in the starting lineups, in match order
StartEntries(matches, id) ==
    IF matches = <<>> THEN <<>>
    ELSE SelectSeq(matches[1].starters, LAMBDA e : e.id = id) \o StartEntries(Tail(matches), id)

RECURSIVE EnteredEntries(_, _)
\* the player's entries in the substitute rosters of the matches whose substitution
\* events name the player
EnteredEntries(matches, id) ==
    IF matches = <<>> THEN <<>>
    ELSE (IF \E k \in 1..Len(matches[1].substitutions) :
                 matches[1].substitutions[k].player_id = id
             THEN SelectSeq(matches[1].substitutes, LAMBDA e : e.id = id)
          ELSE <<>>)
         \o EnteredEntries(Tail(matches), id)

\* C14: sub_appearances counts the roster entries of the matches that have a
\* substitution event for the player, and goals, assists, xG, minutes and rating are
\* accumulated over the starts and those entries alone: a roster entry without an event
\* adds to nothing.
C14_UnusedSubstituteNotCounted ==
    op.name = "rotations" =>
        \A k \in 1..Len(out[1]) :
            LET id == out[1][k].key
                p == out[1][k].val
                counted == StartEntries(inp, id) \o EnteredEntries(inp, id)
                positive == Positive(CountedRatings(inp, id))
            IN /\ p.sub_appearances = Len(EnteredEntries(inp, id))
               /\ p.goals = SumSeq([i \in 1..Len(counted) |-> counted[i].goals])
               /\ p.assists = SumSeq([i \in 1..Len(counted) |-> counted[i].assists])
               /\ p.xG = SumSeq([i \in 1..Len(counted) |-> counted[i].xG])
               /\ p.total_minutes = SumSeq([i \in 1..Len(counted) |-> counted[i].minutes])
               /\ FracEQ(p.avg_rating,
                         IF positive = <<>> THEN Zero
                         ELSE Frac(SumSeq(positive), Len(positive)))

\* P1 on the bench of one match without coming on, and coming on in another
C14_Witness ==
    /\ op.name = "rotations"
    /\ \E i, j \in 1..Len(inp) :
           /\ inp[i].substitutes # <<>> /\ inp[i].substitutions = <<>>
           /\ inp[j].substitutes # <<>> /\ inp[j].substitutions # <<>>
    /\ DictGet(out[1], "P1", <<>>).sub_appearances = 1
    /\ DictGet(out[1], "P1", <<>>).goals = 1
    /\ DictGet(out[1], "P1", <<>>).total_minutes = 90

\* C15: a player without an appearance is "Non-playing"; otherwise the role follows
\* start_rate = starts / total matches with strict comparisons: above 0.8 "Key Player",
\* else above 0.5 "Regular Starter", else above 0.2 "Squad Rotation", else "Fringe
\* Player"; exactly 0.8, 0.5 and 0.2 fall in the lower bucket.
C15_RoleThresholds ==
    op.name = "roles" =>
        \A k \in 1..Len(out[1]) :
            LET p == out[1][k].val
                rate == Frac(p.starts, Len(inp))
            IN /\ p.role = IF p.total_appearances = 0 THEN "Non-playing"
                           ELSE IF FracGT(rate, Frac(8, 10)) THEN "Key Player"
                           ELSE IF FracGT(rate, Frac(5, 10)) THEN "Regular Starter"
                           ELSE IF FracGT(rate, Frac(2, 10)) THEN "Squad Rotation"
                           ELSE "Fringe Player"
               /\ p.total_appearances > 0 =>
                      /\ FracEQ(rate, Frac(8, 10)) => p.role = "Regular Starter"
                      /\ FracEQ(rate, Frac(5, 10)) => p.role = "Squad Rotation"
                      /\ FracEQ(rate, Frac(2, 10)) => p.role = "Fringe Player"

\* 4 starts in 5 matches: start_rate is exactly 0.8
C15_Witness ==
    /\ op.name = "roles"
    /\ Len(inp) = 5
    /\ DictHas(out[1], "P1")
    /\ DictGet(out[1], "P1", <<>>).starts = 4
    /\ DictGet(out[1], "P1", <<>>).role = "Regular Starter"

\* C16: recent_form_avg is the mean of the last five (or fewer) of the player's ratings
\* > 0, taken over the starts and the entered-substitute appearances in match order, and
\* 0 when there is none.
C16_RecentFormWindow ==
    op.name = "form" =>
        \A k \in 1..Len(out[1]) :
            LET positive == Positive(CountedRatings(inp, out[1][k].key))
                n == Len(positive)
                window == SubSeq(positive, IF n > 5 THEN n - 4 ELSE 1, n)
                form == out[1][k].val.recent_form_avg
            IN IF positive = <<>> THEN form = Zero
               ELSE FracEQ(form, Frac(SumSeq(window), Len(window)))

\* six appearances rated 8.1, then 6.0 four times and 7.0 once as a substitute: the
\* 8.1 is outside the window, whose mean is 6.2
C16_Witness ==
    /\ op.name = "form"
    /\ Len(Positive(CountedRatings(inp, "P1"))) = 6
    /\ Positive(CountedRatings(inp, "P1"))[1] = 81
    /\ \E i \in 1..Len(inp) : inp[i].substitutions # <<>>
    /\ FracEQ(DictGet(out[1], "P1", <<>>).recent_form_avg, Frac(62, 1))
    /\ ~FracEQ(DictGet(out[1], "P1", <<>>).avg_rating, Frac(62, 1))

\* the average a performance entry reports for a statistic
AvgOf(perf, key) ==
    CASE key = <<"ball_possession">> -> perf.avg_possession
      [] key = <<"total_shots">> -> perf.avg_shots
      [] key = <<"shots_on_target">> -> perf.avg_shots_on_target
      [] key = <<"big_chances">> -> perf.avg_big_chances
      [] key = <<"accurate_passes">> -> perf.avg_accurate_passes
      [] key = <<"fouls_committed">> -> perf.avg_fouls
      [] key = <<"corners">> -> perf.avg_corners
      [] key = <<"expected_goals_xg">> -> perf.avg_xG

EightStatistics ==
    {<<"ball_possession">>, <<"total_shots">>, <<"shots_on_target">>, <<"big_chances">>,
     <<"accurate_passes">>, <<"fouls_committed">>, <<"corners">>, <<"expected_goals_xg">>}

\* C17: for every formation and each of the eight statistics that some match of the
\* formation carries, the reported average is the mean over the matches of the formation
\* that carry the statistic; a match without it is no sample.
C17_MeanOverCarriers ==
    op.name = "performance" =>
        \A k \in 1..Len(out[1]) : \A key \in EightStatistics :
            LET played == SelectSeq(inp, LAMBDA m : m.formation = out[1][k].key)
                carriers == SelectSeq(played, LAMBDA m :
                                \E i \in 1..Len(m.stats) : m.stats[i].key = key)
                values == [i \in 1..Len(carriers) |->
                              carriers[i].stats[CHOOSE j \in 1..Len(carriers[i].stats) :
                                                    carriers[i].stats[j].key = key].val]
            IN carriers # <<>> =>
                   FracEQ(AvgOf(out[1][k].val, key), Frac(SumSeq(values), Len(values)))

\* C18: the style is the label of the first branch that matches: possession > 55 and
\* goals for > 1.5 "Possession Attack"; possession > 55 "Possession Control"; shots > 13
\* "Direct Attack"; goals against < 1.0 "Defensive Solid"; else "Balanced".
C18_StyleDecisionTree ==
    op.name = "style" =>
        LET possession == IF \E i \in 1..Len(inp.avg_stats) :
                                 inp.avg_stats[i].key = <<"ball_possession">>
                             THEN inp.avg_stats[1].val ELSE Zero
            shots == IF \E i \in 1..Len(inp.avg_stats) :
                            inp.avg_stats[i].key = <<"total_shots">>
                        THEN inp.avg_stats[Len(inp.avg_stats)].val ELSE Zero
            gf == inp.formation_data.goals_for_avg
            ga == inp.formation_data.goals_against_avg
            high_possession == possession.num > 55 * possession.den
        IN out[1] = IF high_possession /\ 2 * gf.num > 3 * gf.den THEN "Possession Attack"
                    ELSE IF high_possession THEN "Possession Control"
                    ELSE IF shots.num > 13 * shots.den THEN "Direct Attack"
                    ELSE IF ga.num < ga.den THEN "Defensive Solid"
                    ELSE "Balanced"

\* every branch would match: the first one gives the label
C18_Witness ==
    /\ op.name = "style"
    /\ inp.avg_stats = << [key |-> <<"ball_possession">>, val |-> Frac(56, 1)],
                          [key |-> <<"total_shots">>, val |-> Frac(14, 1)] >>
    /\ inp.formation_data = [goals_for_avg |-> Frac(2, 1), goals_against_avg |-> Frac(0, 1)]
    /\ out[1] = "Possession Attack"

\* C19: for every formation entry wins + draws + losses = usage_count >= 1, win_rate is
\* wins / usage_count (kept as a percentage), points_per_game is
\* (3 * wins + draws) / usage_count, and 0 <= points_per_game <= 3.
C19_FormationRecord ==
    op.name = "formations" =>
        \A k \in 1..Len(out[1]) :
            LET f == out[1][k].val
            IN /\ f.usage_count >= 1
               /\ f.wins + f.draws + f.losses = f.usage_count
               /\ FracEQ(f.win_rate, Frac(100 * f.wins, f.usage_count))
               /\ FracEQ(f.points_per_game, Frac(3 * f.wins + f.draws, f.usage_count))
               /\ FracLE(Zero, f.points_per_game) /\ FracLE(f.points_per_game, Frac(3, 1))

\* a formation with a win, a draw and a loss: 4 points in 3 matches
C19_Witness ==
    /\ op.name = "formations"
    /\ Len(out[1]) = 1
    /\ out[1][1].val.wins = 1 /\ out[1][1].val.draws = 1 /\ out[1][1].val.losses = 1
    /\ out[1][1].val.usage_count = 3
    /\ out[1][1].val.points_per_game = Frac(4, 3)

\* C20: for every statistic of the document's stats block the record's stats hold the
\* team's value under the statistic's name and the other side's value under
\* opponent_<name>: home_<stat> is the team's and away_<stat> the opponent's when the
\* team is home, and the reverse when it is away.
C20_SingleTeamView ==
    (op.name = "extract" /\ out[1].kind = "ok") =>
        LET m == Val(out[1].val)
            own == IF m.is_home THEN "home_" ELSE "away_"
            other == IF m.is_home THEN "away_" ELSE "home_"
        IN \A i \in 1..Len(inp.match.stats) :
               LET key == inp.match.stats[i].key
                   value == inp.match.stats[i].val
               IN /\ key[1] = own =>
                         \E j \in 1..Len(m.stats) :
                             m.stats[j].key = Tail(key) /\ m.stats[j].val = value
                  /\ key[1] = other =>
                         \E j \in 1..Len(m.stats) :
                             m.stats[j].key = <<"opponent_">> \o Tail(key)
                             /\ m.stats[j].val = value

RECURSIVE SubRatings(_, _)
\* the ratings of a player's substitute appearances: one for every substitution event of
\* a match whose roster lists the player, read from the roster entry
SubRatings(matches, id) ==
    IF matches = <<>> THEN <<>>
    ELSE LET events == SelectSeq(matches[1].substitutions, LAMBDA e : e.player_id = id)
             roster == SelectSeq(matches[1].substitutes, LAMBDA e : e.id = id)
         IN (IF roster = <<>> THEN <<>>
             ELSE [i \in 1..Len(events) |-> rating_of(roster[Len(roster)])])
            \o SubRatings(Tail(matches), id)

\* C21: a substitute profile without a rating > 0 among the player's substitute
\* appearances has no avg_rating_as_sub; a profile with one has their mean (which the
\* code rounds to two decimals).
C21_NoRatingReported ==
    op.name = "subs" =>
        \A k \in 1..Len(out[1].substitution_analysis) :
            LET sa == out[1].substitution_analysis[k].val
                samples == Positive(SubRatings(inp, out[1].substitution_analysis[k].key))
            IN IF samples = <<>> THEN "avg_rating_as_sub" \notin DOMAIN sa
               ELSE /\ "avg_rating_as_sub" \in DOMAIN sa
                    /\ sa.avg_rating_as_sub = RoundDiv(10 * SumSeq(samples), Len(samples))

PlayerIds == {"P1", "P2", "P3"}

\* the player has, in one match, a substitution event and a roster entry
CameOn(matches, id) ==
    \E i \in 1..Len(matches) :
        /\ \E e \in 1..Len(matches[i].substitutions) :
               matches[i].substitutions[e].player_id = id
        /\ \E r \in 1..Len(matches[i].substitutes) : matches[i].substitutes[r].id = id

\* C22: the keys of substitution_analysis are, each once, the identifiers of the players
\* who in at least one match are both in the substitution events and in the substitute
\* roster.
C22_SubstituteProfileKeys ==
    op.name = "subs" =>
        LET keys == DictKeys(out[1].substitution_analysis)
        IN /\ {keys[k] : k \in 1..Len(keys)} = {id \in PlayerIds : CameOn(inp, id)}
           /\ \A i, j \in 1..Len(keys) : keys[i] = keys[j] => i = j

\* P1 starts in one match, is an unused substitute in another and has an event without
\* a roster entry in a third: no profile for P1, none for the starter P2, one for P3
C22_Witness ==
    /\ op.name = "subs"
    /\ \E i \in 1..Len(inp) : \E k \in 1..Len(inp[i].starters) : inp[i].starters[k].id = "P1"
    /\ \E i \in 1..Len(inp) :
           /\ \E r \in 1..Len(inp[i].substitutes) : inp[i].substitutes[r].id = "P1"
           /\ \A e \in 1..Len(inp[i].substitutions) : inp[i].substitutions[e].player_id # "P1"
    /\ \E i \in 1..Len(inp) :
           /\ \A r \in 1..Len(inp[i].substitutes) : inp[i].substitutes[r].id # "P1"
           /\ \E e \in 1..Len(inp[i].substitutions) : inp[i].substitutions[e].player_id = "P1"
    /\ DictKeys(out[1].substitution_analysis) = <<"P3">>

OncePerMatch(matches) ==
    \A i \in 1..Len(matches) : \A id \in PlayerIds :
        /\ Cardinality({r \in 1..Len(matches[i].substitutes) :
                           matches[i].substitutes[r].id = id}) <= 1
        /\ Cardinality({e \in 1..Len(matches[i].substitutions) :
                           matches[i].substitutions[e].player_id = id}) <= 1

\* C25: when no match lists a player twice in its roster or twice in its events, every
\* player's sub_appearances in player_pool equals the total_sub_apps of the player's
\* substitute profile (0 without a profile), and in every profile W + D + L of
\* results_when_subbed is total_sub_apps.
C25_SubAppearancesAgree ==
    (op.name = "subs" /\ OncePerMatch(inp)) =>
        /\ \A k \in 1..Len(out[1].substitution_analysis) :
               DictHas(out[1].player_pool, out[1].substitution_analysis[k].key)
        /\ \A k \in 1..Len(out[1].player_pool) :
               LET id == out[1].player_pool[k].key
                   sa == out[1].substitution_analysis
               IN out[1].player_pool[k].val.sub_appearances
                      = IF DictHas(sa, id) THEN sa[DictIdx(sa, id)].val.total_sub_apps ELSE 0
        /\ \A k \in 1..Len(out[1].substitution_analysis) :
               LET sa == out[1].substitution_analysis[k].val
               IN sa.results_when_subbed.W + sa.results_when_subbed.D
                      + sa.results_when_subbed.L = sa.total_sub_apps

\* P1 comes on in a won and in a drawn match and sits out the third
C25_Witness ==
    /\ op.name = "subs" /\ OncePerMatch(inp)
    /\ Len(inp) = 3
    /\ DictHas(out[1].substitution_analysis, "P1")
    /\ DictGet(out[1].player_pool, "P1", <<>>).sub_appearances = 2
    /\ DictGet(out[1].substitution_analysis, "P1", <<>>).total_sub_apps = 2
    /\ DictGet(out[1].substitution_analysis, "P1", <<>>).results_when_subbed
           = [W |-> 1, D |-> 1, L |-> 0]
    /\ \E i \in 1..Len(inp) : inp[i].substitutes # <<>> /\ ~CameOn(<<inp[i]>>, "P1")

RECURSIVE StartFormations(_, _)
\* the formations of the player's starts, in match order
StartFormations(matches, id) ==
    IF matches = <<>> THEN <<>>
    ELSE [i \in 1..Len(SelectSeq(matches[1].starters, LAMBDA e : e.id = id)) |->
             matches[1].formation]
         \o StartFormations(Tail(matches), id)

StartPositions(matches, id) ==
    LET entries == StartEntries(matches, id)
    IN [i \in 1..Len(entries) |-> entries[i].position]

Occurrences(keys, x) == Cardinality({i \in 1..Len(keys) : keys[i] = x})
FirstSeen(keys, x) == CHOOSE i \in 1..Len(keys) : keys[i] = x /\ \A j \in 1..(i - 1) : keys[j] # x

\* x occurs most often in keys, and no key that occurs as often was seen before it
FirstMode(keys, x) ==
    /\ \E i \in 1..Len(keys) : keys[i] = x
    /\ \A j \in 1..Len(keys) :
           /\ Occurrences(keys, keys[j]) <= Occurrences(keys, x)
           /\ Occurrences(keys, keys[j]) = Occurrences(keys, x)
                  => FirstSeen(keys, x) <= FirstSeen(keys, keys[j])

\* C23: primary_position and primary_formation of a player with a start are the position
\* and the formation that occur most often over the player's starts, and among those
\* that occur equally often the one met first in match order.
C23_PrimaryIsFirstMode ==
    op.name = "primary" =>
        \A k \in 1..Len(out[1]) :
            LET id == out[1][k].key
                p == out[1][k].val
            IN p.starts > 0 =>
                   /\ FirstMode(StartFormations(inp, id), p.primary_formation)
                   /\ FirstMode(StartPositions(inp, id), p.primary_position)

\* a tie: 4-4-2 at LW, then 4-3-3 at ST
C23_Witness ==
    /\ op.name = "primary"
    /\ StartFormations(inp, "P1") = <<Some("4-4-2"), Some("4-3-3")>>
    /\ StartPositions(inp, "P1") = <<"LW", "ST">>
    /\ DictGet(out[1], "P1", <<>>).primary_formation = Some("4-4-2")
    /\ DictGet(out[1], "P1", <<>>).primary_position = "LW"

\* the records of a sequence that carry the date, in order
OfDate(matches, date) == SelectSeq(matches, LAMBDA m : m.date = Some(date))

\* C24: the matches of a profile are the extracted records in non-decreasing order of
\* date, the records of one date in document order, and each of the four aggregates is
\* the fold over this sequence.
C24_SortedByDateStable ==
    (op.name = "analyze" /\ ret.kind = "ok") =>
        LET team_data == Val(ret.val)
            matches == team_data.matches
            extracted == Val(extract_matches(Val(data), op.team, <<>>).val)
        IN /\ Len(matches) = Len(extracted)
           /\ \A i, j \in 1..Len(matches) :
                  i < j => Val(matches[i].date) <= Val(matches[j].date)
           /\ \A date \in Dates : OfDate(matches, date) = OfDate(extracted, date)
           /\ team_data.formations = analyze_team_formations(matches)
           /\ team_data.player_pool = analyze_player_rotations(matches)
           /\ team_data.performance_by_formation
                  = analyze_formation_performance(matches, team_data.formations)
           /\ team_data.substitution_analysis
                  = analyze_substitution_patterns(matches, team_data.player_pool)

\* the later match comes first in the collection: the records are in date order, and the
\* formation of the earlier match is the first key of formations
C24_Witness ==
    /\ op.name = "analyze" /\ ret.kind = "ok"
    /\ Len(Val(data)) = 2
    /\ Val(data)[1].date = Some(2) /\ Val(data)[2].date = Some(1)
    /\ Val(data)[1].home_team = op.team /\ Val(data)[2].away_team = op.team
    /\ Val(ret.val).matches[1].match_id = Val(data)[2].match_id
    /\ Val(ret.val).matches[2].match_id = Val(data)[1].match_id
    /\ DictKeys(Val(ret.val).formations) = <<Some("4-4-2"), Some("4-3-3")>>

====
